---- MODULE Spec2Model ----
(***************************************************************************)
(* Model of the device discovery and reconciliation engine of the main     *)
(* window (src/src/ui/window.rs): the startup scan of block devices, the   *)
(* two storage signal loops, the polling sweep over /sys/class/net, and    *)
(* the two registries drive_pages and network_pages with the pages shown   *)
(* in content_stack.                                                       *)
(*                                                                         *)
(* One action is one run of the single main-context task between two       *)
(* suspension points (.await).  Awaits between which no program state      *)
(* changes are merged into one suspension.  Option and Result values are   *)
(* sets with at most one element: {x} is Some(x) / Ok(x), {} is None /     *)
(* Err.  Texts that are decoded from bytes are sequences of bytes.         *)
(*                                                                         *)
(* content_stack holds the drive and network pages only (the fixed pages   *)
(* and the GPU pages of lines 161-186 are never removed and are in no      *)
(* registry).  A page handle is a number; a new page gets the smallest     *)
(* number no shown page has.  The system bus connection stays open, so the *)
(* two signal streams never end.  borrows holds the borrow flags of the    *)
(* two RefCells as they stand when the task is suspended.                  *)
(***************************************************************************)
EXTENDS Integers, Sequences, FiniteSets, TLC

\* ------------------------------------------------------------------ bounds
MaxPages == 3
MaxQueue == 1
MaxBlockDevices == 2

\* ------------------------------------------------------------- byte texts
\* The file name "lo" (window.rs:374).
Lo == <<108, 111>>
\* "eth0", "wlan0", and a name that is not valid UTF-8.
Eth0 == <<101, 116, 104, 48>>
Wlan0 == <<119, 108, 97, 110, 48>>
BadName == <<255, 254>>

\* str::from_utf8 / OsStr::to_str, on the bytes used here: ASCII bytes are
\* well-formed, the bytes 0xFE and 0xFF occur in no well-formed sequence.
Utf8Valid(bytes) == \A i \in DOMAIN bytes : bytes[i] < 128

\* path.file_name().to_str()
ToStr(name) == IF Utf8Valid(name) THEN {name} ELSE {}

\* Mutant of IsOk: no Result counts as Ok.
IsOkNever(res) == FALSE

\* Result::is_ok
IsOk(res) == res # {}

UnwrapOr(opt, default) == IF opt = {} THEN default ELSE CHOOSE x \in opt : TRUE

\* Mutant of SkippedName: no entry is skipped for its name.
SkippedNameNever(name) == FALSE

\* if path.file_name().to_str().unwrap_or("lo") == "lo" { continue; }
SkippedName(name) == UnwrapOr(ToStr(name), Lo) = Lo

\* device_bytes.into_iter().filter(|x| *x != 0).collect()
FilterNul(bytes) == SelectSeq(bytes, LAMBDA b : b # 0)

\* String::from_utf8(...) : Result<String>
FromUtf8(bytes) == IF Utf8Valid(bytes) THEN {bytes} ELSE {}

\* ------------------------------------------------------------ environment
DirNames == {Lo, Eth0, Wlan0, BadName}
\* Directory entries in enumeration order; {} is an entry read_dir yields as Err.
DirOrder == <<{}, {Lo}, {Eth0}, {BadName}, {Wlan0}>>
DirOrderRev == <<{Wlan0}, {Eth0}, {Lo}>>

Listings(names) ==
    {SelectSeq(DirOrder, LAMBDA e : e \subseteq s) : s \in SUBSET names}
    \cup {SelectSeq(DirOrderRev, LAMBDA e : e # {} /\ e \subseteq s) : s \in SUBSET names}

DriveKeys == {"/d1", "/d2"}
DriveInterface == "org.freedesktop.UDisks2.Drive"
BlockInterface == "org.freedesktop.UDisks2.Block"
NoCrypto == "/"
DevSda == <<47, 0, 115, 100, 97, 0>>
DevBad == <<47, 255>>

VARIABLES
    phase,                      \* position of the task spawned in setup_widgets
    block_devices, scan_i,      \* look_for_drives: the list and the loop index
    scan_call,                  \* look_for_drives: arguments of the pending add_drive_page
    watch_pc,                   \* watch_for_drives: connection and subscriptions
    add_pc, add_call,           \* the interfaces-added loop and its pending add_drive_page
    rem_pc,                     \* the interfaces-removed loop
    added_q, removed_q,         \* signals buffered in the two signal streams
    drive_pages,                \* imp.drive_pages
    network_pages,              \* imp.network_pages
    content_stack,              \* pages shown by imp.content_stack
    net_pc,                     \* the polling loop
    paths, net_i,               \* watch_for_network_interfaces: listing and loop index
    still_active_interfaces,    \* watch_for_network_interfaces: local
    borrows,                    \* RefCell borrow flags of the two registries
    tracked_before,             \* history: keys of network_pages when the sweep began
    hist,                       \* history: per drive key, the signals emitted for it
    last                        \* history: the program's step taken last

vars == <<phase, block_devices, scan_i, scan_call, watch_pc, add_pc, add_call, rem_pc,
          added_q, removed_q, drive_pages, network_pages, content_stack, net_pc,
          paths, net_i, still_active_interfaces, borrows, tracked_before, hist, last>>

scanVars == <<block_devices, scan_i, scan_call>>
watchVars == <<watch_pc, add_pc, add_call, rem_pc, added_q, removed_q>>
netVars == <<net_pc, paths, net_i, still_active_interfaces, tracked_before, network_pages>>

\* ---------------------------------------------------------------- helpers
EmptyMap == [k \in {} |-> 0]
\* Mutant of Put: an insert under a key that is present keeps the old value.
PutIfAbsent(m, k, v) == [x \in DOMAIN m \cup {k} |-> IF x \in DOMAIN m THEN m[x] ELSE v]

\* HashMap::insert
Put(m, k, v) == [x \in DOMAIN m \cup {k} |-> IF x = k THEN v ELSE m[x]]
Restrict(m, keys) == [x \in DOMAIN m \cap keys |-> m[x]]

NoListing == [ok |-> FALSE, entries |-> <<>>]
NoCall == [key |-> "", device |-> <<>>, writable |-> TRUE, crypto |-> ""]

\* ------------------------------------------------------- RefCell borrows
\* The borrow flag of each registry's RefCell as the std library keeps it: 0 is
\* unused, n > 0 is n shared borrows, -1 is one mutable borrow.  conflict records
\* that a borrow()/borrow_mut() found the cell borrowed the other way (the call
\* panics with "already borrowed").
NoBorrows == [drive_pages |-> 0, network_pages |-> 0, conflict |-> FALSE]

\* RefCell::borrow
Borrow(b, cell) ==
    IF b[cell] < 0 THEN [b EXCEPT !.conflict = TRUE] ELSE [b EXCEPT ![cell] = @ + 1]

\* RefCell::borrow_mut
BorrowMut(b, cell) ==
    IF b[cell] # 0 THEN [b EXCEPT !.conflict = TRUE] ELSE [b EXCEPT ![cell] = -1]

\* Drop of a Ref or of a RefMut.
DropBorrow(b, cell) ==
    [b EXCEPT ![cell] = IF @ > 0 THEN @ - 1 ELSE 0]

\* The registry accesses of a stretch of code, in program order.
RECURSIVE RunOps(_, _)
RunOps(b, ops) ==
    IF ops = <<>> THEN b
    ELSE LET op == Head(ops)
             b1 == CASE op[1] = "borrow" -> Borrow(b, op[2])
                     [] op[1] = "borrow_mut" -> BorrowMut(b, op[2])
                     [] op[1] = "drop" -> DropBorrow(b, op[2])
         IN  RunOps(b1, Tail(ops))

\* imp.drive_pages.borrow_mut().insert(key, drive_page); (363): the RefMut is a
\* temporary of the statement.
InsertDriveOps == <<<<"borrow_mut", "drive_pages">>, <<"drop", "drive_pages">>>>

\* let mut borrowed_drive_pages = imp.drive_pages.borrow_mut(); ... } (320-325): the
\* RefMut is a local of the if block, which holds no await.
RemoveDriveOps == <<<<"borrow_mut", "drive_pages">>, <<"drop", "drive_pages">>>>

\* Mutant of ContainsKeyOps: the Ref lives on into the body of the loop.
ContainsKeyOpsHeld == <<<<"borrow", "network_pages">>>>

\* if imp.network_pages.borrow().contains_key(&dir_path) { (377): the Ref is a
\* temporary of the condition and is dropped before the block and before line 382.
ContainsKeyOps == <<<<"borrow", "network_pages">>, <<"drop", "network_pages">>>>

\* imp.network_pages.borrow_mut().insert(path.path(), page); (395)
InsertNetOps == <<<<"borrow_mut", "network_pages">>, <<"drop", "network_pages">>>>

\* imp.network_pages.borrow_mut().drain_filter(..).for_each(..); (402-405)
DrainOps == <<<<"borrow_mut", "network_pages">>, <<"drop", "network_pages">>>>

\* The futures of a finished try_join! are dropped, and with them what they hold.
DropAll(b) == [NoBorrows EXCEPT !.conflict = b.conflict]

\* A page object not shown yet: ResDrive::new() / ResNetwork::new().
HasFreePage(stack) == \E p \in 1..MaxPages : p \notin stack
NewPage(stack) ==
    CHOOSE p \in 1..MaxPages : p \notin stack /\ \A q \in 1..(p - 1) : q \in stack

Init ==
    /\ phase = "scan_connect"
    /\ block_devices = <<>> /\ scan_i = 0 /\ scan_call = NoCall
    /\ watch_pc = "idle" /\ add_pc = "idle" /\ add_call = NoCall /\ rem_pc = "idle"
    /\ added_q = <<>> /\ removed_q = <<>>
    /\ drive_pages = EmptyMap /\ network_pages = EmptyMap /\ content_stack = {}
    /\ net_pc = "idle" /\ paths = NoListing /\ net_i = 0
    /\ still_active_interfaces = {} /\ tracked_before = {}
    /\ borrows = NoBorrows
    /\ hist = [d \in DriveKeys |-> "none"]
    /\ last = "init"

\* ------------------------------------------------- the try_join! tear-down
\* An Err from watch_for_drives ends the try_join! of setup_widgets (188-203), and
\* an Err from one signal loop ends the try_join! of watch_for_drives (287-331):
\* the futures still pending are dropped, unwrap_or_default discards the error and
\* the spawned task ends.
Abort(addState, remState, tag) ==
    /\ phase' = "ended"
    /\ watch_pc' = "failed"
    /\ add_pc' = addState /\ rem_pc' = remState
    /\ add_call' = NoCall
    /\ added_q' = <<>> /\ removed_q' = <<>>
    /\ net_pc' = "dropped"
    /\ paths' = NoListing /\ net_i' = 0
    /\ still_active_interfaces' = {} /\ tracked_before' = {}
    /\ last' = tag
    /\ borrows' = DropAll(borrows)
    /\ UNCHANGED <<scanVars, drive_pages, network_pages, content_stack, hist>>

\* ------------------------------------------------- add_drive_page (334-365)
\* Mutant of AddDrivePage: the page is shown before the property reads.
AddDrivePageShownFirst(call, props_ok, pages, stack) ==
    LET drive_page == NewPage(stack) IN
    [result |-> IF props_ok THEN "ok" ELSE "err",
     drive_pages |-> IF props_ok THEN Put(pages, call.key, drive_page) ELSE pages,
     content_stack |-> stack \cup {drive_page}]

\* The four property reads either all succeed (props_ok) or the first failing one
\* returns Err before the page is shown or stored.
AddDrivePage(call, props_ok, pages, stack) ==
    IF props_ok
    THEN LET drive_page == NewPage(stack) IN
         [result |-> "ok",
          drive_pages |-> Put(pages, call.key, drive_page),
          content_stack |-> stack \cup {drive_page}]
    ELSE [result |-> "err", drive_pages |-> pages, content_stack |-> stack]

\* ------------------------------------------------ look_for_drives (207-266)
\* One block device as the storage service answers for it: partition is the
\* Result of PartitionProxy::name(), swapspace the Result of
\* SwapspaceProxy::active(), crypto, drive, device and read_only the Results of the
\* BlockProxy queries of those names.
PlainDevice(d) ==
    [proxy_ok |-> TRUE, partition |-> {}, swapspace |-> {},
     crypto |-> {NoCrypto}, drive |-> {d}, drive_proxy_ok |-> TRUE,
     device |-> {DevSda}, read_only |-> {FALSE}, props_ok |-> TRUE]

ScanDevices ==
    {PlainDevice(d) : d \in DriveKeys}
    \cup {[PlainDevice("/d1") EXCEPT !.partition = {"sda1"}],
          [PlainDevice("/d1") EXCEPT !.swapspace = {TRUE}],
          [PlainDevice("/d1") EXCEPT !.crypto = {"/dev/dm-0"}],
          [PlainDevice("/d1") EXCEPT !.crypto = {}],
          [PlainDevice("/d1") EXCEPT !.drive = {}],
          [PlainDevice("/d1") EXCEPT !.proxy_ok = FALSE],
          [PlainDevice("/d1") EXCEPT !.device = {DevBad}],
          [PlainDevice("/d1") EXCEPT !.device = {}, !.read_only = {}],
          [PlainDevice("/d1") EXCEPT !.read_only = {TRUE}],
          [PlainDevice("/d1") EXCEPT !.drive_proxy_ok = FALSE],
          [PlainDevice("/d1") EXCEPT !.props_ok = FALSE]}

DeviceLists(devices) == UNION {[1..n -> devices] : n \in 0..MaxBlockDevices}

\* Lines 219-258 for one block device: "err" is a `?` that returns from
\* look_for_drives, "skip" goes on with the next device, "add" calls add_drive_page.
ScanProbe(d) ==
    LET is_partition == IsOk(d.partition)
        is_swapspace == IsOk(d.swapspace)
        has_crypto_backing_device == UnwrapOr(d.crypto, NoCrypto) # NoCrypto
        device == IF d.device = {} THEN {<<>>}
                  ELSE FromUtf8(FilterNul(UnwrapOr(d.device, <<>>)))
        writable == IF d.read_only = {} THEN TRUE ELSE ~UnwrapOr(d.read_only, FALSE)
    IN  IF ~d.proxy_ok \/ d.crypto = {} \/ d.drive = {}
        THEN [kind |-> "err", call |-> NoCall]
        ELSE IF ~is_partition /\ ~is_swapspace /\ ~has_crypto_backing_device
                /\ d.drive_proxy_ok
        THEN IF device = {}
             THEN [kind |-> "err", call |-> NoCall]
             ELSE [kind |-> "add",
                   call |-> [key |-> UnwrapOr(d.drive, ""), device |-> UnwrapOr(device, <<>>),
                             writable |-> writable, crypto |-> UnwrapOr(d.crypto, "")]]
        ELSE [kind |-> "skip", call |-> NoCall]

\* Where the scan is after the device at index i: the next device, or the return
\* of look_for_drives followed by GPU::get_gpus().await.
AfterDevice(i) == IF i + 1 > Len(block_devices) THEN "gpus" ELSE "scan"

\* Connection::system, UDisks2ManagerProxy::new or get_block_devices fails (208-217).
ScanConnectFail ==
    /\ phase = "scan_connect"
    /\ phase' = "gpus"
    /\ last' = "scan_connect_err"
    /\ UNCHANGED <<scanVars, watchVars, netVars, drive_pages, content_stack, hist, borrows>>

GetBlockDevices(devices) ==
    /\ phase = "scan_connect"
    /\ \E list \in DeviceLists(devices) :
          /\ block_devices' = list
          /\ scan_i' = 1
          /\ phase' = IF list = <<>> THEN "gpus" ELSE "scan"
    /\ last' = "get_block_devices"
    /\ UNCHANGED <<scan_call, watchVars, netVars, drive_pages, content_stack, hist, borrows>>

ScanDevice ==
    /\ phase = "scan"
    /\ LET probe == ScanProbe(block_devices[scan_i]) IN
          CASE probe.kind = "err" ->
                  /\ phase' = "gpus"
                  /\ last' = "scan_err"
                  /\ UNCHANGED <<scan_i, scan_call>>
            [] probe.kind = "skip" ->
                  /\ phase' = AfterDevice(scan_i)
                  /\ scan_i' = scan_i + 1
                  /\ last' = "scan_skip"
                  /\ UNCHANGED scan_call
            [] probe.kind = "add" ->
                  /\ phase' = "scan_add"
                  /\ scan_call' = probe.call
                  /\ last' = "scan_call"
                  /\ UNCHANGED scan_i
    /\ UNCHANGED <<block_devices, watchVars, netVars, drive_pages, content_stack, hist, borrows>>

\* add_drive_page(...).await.unwrap_or_default() of the scan (259-261).
ScanAddFinish ==
    /\ phase = "scan_add"
    /\ LET props_ok == block_devices[scan_i].props_ok
           r == AddDrivePage(scan_call, props_ok, drive_pages, content_stack)
       IN  /\ props_ok => HasFreePage(content_stack)
           /\ drive_pages' = r.drive_pages
           /\ content_stack' = r.content_stack
           /\ borrows' = IF r.result = "ok" THEN RunOps(borrows, InsertDriveOps) ELSE borrows
           /\ last' = IF r.result = "ok" THEN "scan_added" ELSE "scan_add_err"
    /\ phase' = AfterDevice(scan_i)
    /\ scan_i' = scan_i + 1
    /\ scan_call' = NoCall
    /\ UNCHANGED <<block_devices, watchVars, netVars, hist>>

\* Mutant of StartWatchers: the loops are started beside the scan, not after it.
StartWatchersBesideScan ==
    /\ phase \in {"scan", "gpus"} /\ watch_pc = "idle"
    /\ phase' = IF phase = "gpus" THEN "joined" ELSE phase
    /\ watch_pc' = "conn"
    /\ net_pc' = "timer"
    /\ last' = "join"
    /\ UNCHANGED <<scanVars, add_pc, add_call, rem_pc, added_q, removed_q,
                   paths, net_i, still_active_interfaces, tracked_before,
                   network_pages, drive_pages, content_stack, hist, borrows>>

\* GPU::get_gpus() returns and try_join! starts both loops (172-189).
StartWatchers ==
    /\ phase = "gpus"
    /\ phase' = "joined"
    /\ watch_pc' = "conn"
    /\ net_pc' = "timer"
    /\ block_devices' = <<>> /\ scan_i' = 0
    /\ last' = "join"
    /\ UNCHANGED <<scan_call, add_pc, add_call, rem_pc, added_q, removed_q,
                   paths, net_i, still_active_interfaces, tracked_before,
                   network_pages, drive_pages, content_stack, hist, borrows>>

\* ------------------------------------------------ watch_for_drives (268-332)
\* Connection::system and the ObjectManagerProxy are built (270-278).
WatchConnected ==
    /\ phase = "joined" /\ watch_pc = "conn"
    /\ watch_pc' = "sub_added"
    /\ last' = "watch_connected"
    /\ UNCHANGED <<phase, scanVars, add_pc, add_call, rem_pc, added_q, removed_q,
                   netVars, drive_pages, content_stack, hist, borrows>>

\* receive_interfaces_added().await returns the stream (279-282).
SubscribedAdded ==
    /\ phase = "joined" /\ watch_pc = "sub_added"
    /\ watch_pc' = "sub_removed"
    /\ last' = "subscribed_added"
    /\ UNCHANGED <<phase, scanVars, add_pc, add_call, rem_pc, added_q, removed_q,
                   netVars, drive_pages, content_stack, hist, borrows>>

\* receive_interfaces_removed().await returns the stream and the inner try_join!
\* polls both loops, each up to its stream's next().await (283-289, 317).
SubscribedRemoved ==
    /\ phase = "joined" /\ watch_pc = "sub_removed"
    /\ watch_pc' = "running"
    /\ add_pc' = "next" /\ rem_pc' = "next"
    /\ last' = "subscribed_removed"
    /\ UNCHANGED <<phase, scanVars, add_call, added_q, removed_q,
                   netVars, drive_pages, content_stack, hist, borrows>>

\* One of the `?` of lines 270-286 returns Err from watch_for_drives.
WatchConnectFail ==
    /\ phase = "joined" /\ watch_pc \in {"conn", "sub_added", "sub_removed"}
    /\ Abort("idle", "idle", "watch_connect_err")

\* The streams exist from the return of their receive_* call on.
AddedSubscribed == watch_pc \in {"sub_removed", "running"}
RemovedSubscribed == watch_pc = "running"

\* ---------------------------------------------------- the storage service
\* An InterfacesAdded signal body: (block object path, interfaces and properties).
AddedBody(d) ==
    [body_ok |-> TRUE, path |-> "/b1", block |-> TRUE, partition |-> FALSE,
     swapspace |-> FALSE, drive |-> {d}, crypto |-> {NoCrypto},
     device |-> {DevSda}, read_only |-> {FALSE}]

AddedBodies ==
    {AddedBody("/d1"),
     [AddedBody("/d1") EXCEPT !.partition = TRUE],
          [AddedBody("/d1") EXCEPT !.crypto = {"/dev/dm-0"}],
          [AddedBody("/d1") EXCEPT !.device = {DevBad}],
          [AddedBody("/d2") EXCEPT !.path = "/b2", !.device = {}, !.read_only = {}]}

\* An InterfacesRemoved signal body: (object path, interface names).
RemovedBody(p, ifaces) == [body_ok |-> TRUE, path |-> p, ifaces |-> ifaces]

RemovedBodies ==
    {RemovedBody(d, {DriveInterface}) : d \in DriveKeys}
    \cup {RemovedBody("/d1", {BlockInterface}),
          [RemovedBody("/d1", {DriveInterface}) EXCEPT !.body_ok = FALSE]}

\* The drives the scan has stored or still has in its list.
ScanKnows(d) ==
    \/ d \in DOMAIN drive_pages
    \/ \E i \in DOMAIN block_devices : i >= scan_i /\ d \in block_devices[i].drive

\* History of the signals for drive key d: "added" after an InterfacesAdded for d was
\* delivered, "added_removed" after a delivered removal of its Drive interface
\* followed, "lost_removed" after such a removal was emitted with no subscriber.
HistAfterAdded(h, body, delivered) ==
    [d \in DriveKeys |->
        IF d \notin body.drive THEN h[d]
        ELSE IF delivered THEN "added" ELSE "none"]

HistAfterRemoved(h, body, delivered) ==
    [d \in DriveKeys |->
        IF ~(body.path = d /\ DriveInterface \in body.ifaces) THEN h[d]
        ELSE IF delivered THEN (IF h[d] = "added" THEN "added_removed" ELSE "none")
        ELSE IF ScanKnows(d) THEN "lost_removed" ELSE h[d]]

\* The service emits InterfacesAdded: buffered by the stream if it exists, else lost.
\* `track` says whether the history variable hist follows the signals.
EmitAdded(bodies, track) ==
    /\ phase \in {"scan", "scan_add", "gpus", "joined"}
    /\ \E body \in bodies :
          IF AddedSubscribed
          THEN /\ Len(added_q) < MaxQueue
               /\ added_q' = Append(added_q, body)
               /\ hist' = IF track THEN HistAfterAdded(hist, body, TRUE) ELSE hist
               /\ UNCHANGED last      \* emit_added
          ELSE /\ track
               /\ hist' = HistAfterAdded(hist, body, FALSE)
               /\ hist' # hist
               /\ UNCHANGED last      \* emit_added_lost
               /\ UNCHANGED added_q
    /\ UNCHANGED <<phase, scanVars, watch_pc, add_pc, add_call, rem_pc, removed_q,
                   netVars, drive_pages, content_stack, borrows>>

\* The service emits InterfacesRemoved.
EmitRemoved(bodies, track) ==
    /\ phase \in {"scan", "scan_add", "gpus", "joined"}
    /\ \E body \in bodies :
          IF RemovedSubscribed
          THEN /\ Len(removed_q) < MaxQueue
               /\ removed_q' = Append(removed_q, body)
               /\ hist' = IF track THEN HistAfterRemoved(hist, body, TRUE) ELSE hist
               /\ UNCHANGED last      \* emit_removed
          ELSE /\ track
               /\ hist' = HistAfterRemoved(hist, body, FALSE)
               /\ hist' # hist
               /\ UNCHANGED last      \* emit_removed_lost
               /\ UNCHANGED removed_q
    /\ UNCHANGED <<phase, scanVars, watch_pc, add_pc, add_call, rem_pc, added_q,
                   netVars, drive_pages, content_stack, borrows>>

\* ------------------------------------------- the interfaces-added loop (289-314)
\* Mutant of AddedOutcome: the Partition and Swapspace interfaces are not looked at.
AddedOutcomeAnyBlock(body) ==
    IF body.block /\ body.drive # {}
    THEN [kind |-> "add",
          call |-> [key |-> UnwrapOr(body.drive, ""), device |-> <<>>,
                    writable |-> TRUE, crypto |-> UnwrapOr(body.crypto, "")]]
    ELSE [kind |-> "skip", call |-> NoCall]

\* Lines 290-310 for one signal: "err" is a `?` that returns Err from the loop,
\* "skip" goes back to next().await, "add" goes on to line 311.
AddedOutcome(body) ==
    LET device == IF body.device = {} THEN {<<>>}
                  ELSE FromUtf8(FilterNul(UnwrapOr(body.device, <<>>)))
        writable == IF body.read_only = {} THEN TRUE ELSE ~UnwrapOr(body.read_only, FALSE)
    IN  IF ~body.body_ok THEN [kind |-> "err", call |-> NoCall]
        ELSE IF ~body.partition /\ ~body.swapspace /\ body.block /\ body.drive # {}
        THEN IF device = {}
             THEN [kind |-> "err", call |-> NoCall]
             ELSE [kind |-> "add",
                   call |-> [key |-> UnwrapOr(body.drive, ""), device |-> UnwrapOr(device, <<>>),
                             writable |-> writable, crypto |-> UnwrapOr(body.crypto, "")]]
        ELSE [kind |-> "skip", call |-> NoCall]

\* The added loop is the first arm of try_join! (288-315), which polls its arms in
\* order: while it can take a signal, the removed loop (316-328) is not polled yet.
AddedLoopReady == watch_pc = "running" /\ add_pc = "next" /\ added_q # <<>>

HandleAdded ==
    /\ phase = "joined" /\ AddedLoopReady
    /\ LET o == AddedOutcome(Head(added_q)) IN
          CASE o.kind = "err" -> Abort("failed", "dropped", "added_err")
            [] o.kind = "skip" ->
                  /\ added_q' = Tail(added_q)
                  /\ last' = "added_skip"
                  /\ UNCHANGED <<phase, scanVars, watch_pc, add_pc, add_call, rem_pc,
                                 removed_q, netVars, drive_pages, content_stack, hist, borrows>>
            [] o.kind = "add" ->
                  /\ added_q' = Tail(added_q)
                  /\ add_pc' = "adding"
                  /\ add_call' = o.call
                  /\ last' = "added_call"
                  /\ UNCHANGED <<phase, scanVars, watch_pc, rem_pc, removed_q,
                                 netVars, drive_pages, content_stack, hist, borrows>>

\* Line 311 after its awaits: DriveProxy build (`?`), then add_drive_page with
\* unwrap_or_default.
AddFinish ==
    /\ phase = "joined" /\ watch_pc = "running" /\ add_pc = "adding"
    /\ \E outcome \in {"ok", "props_err", "proxy_err"} :
          IF outcome = "proxy_err"
          THEN Abort("failed", "dropped", "added_proxy_err")
          ELSE LET r == AddDrivePage(add_call, outcome = "ok", drive_pages, content_stack)
               IN  /\ outcome = "ok" => HasFreePage(content_stack)
                   /\ drive_pages' = r.drive_pages
                   /\ content_stack' = r.content_stack
                   /\ add_pc' = "next"
                   /\ add_call' = NoCall
                   /\ borrows' = IF r.result = "ok" THEN RunOps(borrows, InsertDriveOps)
                                 ELSE borrows
                   /\ last' = IF r.result = "ok" THEN "added_page" ELSE "added_page_err"
                   /\ UNCHANGED <<phase, scanVars, watch_pc, rem_pc, added_q, removed_q,
                                  netVars, hist>>

\* ----------------------------------------- the interfaces-removed loop (316-328)
\* Mutant of NamesDrive: any removed interface counts.
NamesDriveAny(ifaces) == ifaces # {}

\* body.1.iter().any(|x| x == "org.freedesktop.UDisks2.Drive")
NamesDrive(ifaces) == DriveInterface \in ifaces

\* Lines 319-325 on the registry and the stack.
RemoveDrive(body, pages, stack) ==
    IF NamesDrive(body.ifaces) /\ body.path \in DOMAIN pages
    THEN [hit |-> TRUE,
          drive_pages |-> Restrict(pages, DOMAIN pages \ {body.path}),
          content_stack |-> stack \ {pages[body.path]}]
    ELSE [hit |-> FALSE, drive_pages |-> pages, content_stack |-> stack]

HandleRemoved ==
    /\ phase = "joined" /\ watch_pc = "running" /\ rem_pc = "next"
    /\ removed_q # <<>>
    /\ ~AddedLoopReady
    /\ LET body == Head(removed_q) IN
          IF ~body.body_ok
          THEN Abort("dropped", "failed", "removed_err")
          ELSE LET r == RemoveDrive(body, drive_pages, content_stack) IN
               /\ removed_q' = Tail(removed_q)
               /\ drive_pages' = r.drive_pages
               /\ content_stack' = r.content_stack
               /\ borrows' = IF NamesDrive(body.ifaces) THEN RunOps(borrows, RemoveDriveOps)
                             ELSE borrows
               /\ last' = IF r.hit THEN "removed_page" ELSE "removed_noop"
               /\ UNCHANGED <<phase, scanVars, watch_pc, add_pc, add_call, rem_pc,
                              added_q, netVars, hist>>

\* ------------------------------------ watch_for_network_interfaces (367-406)
\* Mutant of AlreadyTracked: the sweep takes every entry for a tracked one.
AlreadyTrackedAlways(pages, name) == TRUE

\* Mutant of AlreadyTracked: the sweep does not look the entry up.
AlreadyTrackedNever(pages, name) == FALSE

\* imp.network_pages.borrow().contains_key(&dir_path)
AlreadyTracked(pages, name) == name \in DOMAIN pages

\* The loop of lines 371-398 from entry i on, up to the next from_sysfs(..).await
\* (pending) or to the end of the listing.
RECURSIVE SweepFrom(_, _, _, _)
SweepFrom(entries, i, active, pages) ==
    IF i > Len(entries)
    THEN [i |-> i, active |-> active, pending |-> FALSE]
    ELSE IF entries[i] = {}                                  \* paths.flatten()
    THEN SweepFrom(entries, i + 1, active, pages)
    ELSE LET name == UnwrapOr(entries[i], Lo) IN
         IF SkippedName(name)
         THEN SweepFrom(entries, i + 1, active, pages)
         ELSE IF AlreadyTracked(pages, name)
         THEN SweepFrom(entries, i + 1, active \cup {name}, pages)
         ELSE [i |-> i, active |-> active, pending |-> TRUE]

\* Mutant of DrainFilter: the sweep evicts nothing.
DrainFilterKeepsAll(pages, active) == pages

\* drain_filter(|k, _| !still_active_interfaces.iter().any(|x| *x == *k)): the
\* entries that stay.
DrainFilter(pages, active) == Restrict(pages, active)

\* Mutant of SweepSegment: a sweep that enumerated nothing evicts nothing.
SweepSegmentKeepsOnEmpty(entries, i, active, pages, stack) ==
    LET r == SweepFrom(entries, i, active, pages)
        kept == IF r.pending \/ entries = <<>> THEN pages ELSE DrainFilter(pages, r.active)
    IN  /\ net_i' = r.i
        /\ still_active_interfaces' = r.active
        /\ net_pc' = IF r.pending THEN "resolving" ELSE "timer"
        /\ network_pages' = kept
        /\ content_stack' = stack \ {pages[k] : k \in DOMAIN pages \ DOMAIN kept}

\* The rest of the task's run after the registry is `pages` and the stack `stack`:
\* either suspended in from_sysfs, or lines 402-405 and then the 1 s timer.
SweepSegment(entries, i, active, pages, stack) ==
    LET r == SweepFrom(entries, i, active, pages) IN
    /\ net_i' = r.i
    /\ still_active_interfaces' = r.active
    /\ IF r.pending
       THEN /\ net_pc' = "resolving"
            /\ network_pages' = pages
            /\ content_stack' = stack
       ELSE LET kept == DrainFilter(pages, r.active) IN
            /\ net_pc' = "timer"
            /\ network_pages' = kept
            /\ content_stack' = stack \ {pages[k] : k \in DOMAIN pages \ DOMAIN kept}

\* The registry accesses of the loop of lines 371-380 from entry i on, as SweepFrom
\* walks it.
RECURSIVE SweepBorrows(_, _, _, _)
SweepBorrows(entries, i, pages, b) ==
    IF i > Len(entries) THEN b
    ELSE IF entries[i] = {} THEN SweepBorrows(entries, i + 1, pages, b)
    ELSE LET name == UnwrapOr(entries[i], Lo) IN
         IF SkippedName(name) THEN SweepBorrows(entries, i + 1, pages, b)
         ELSE IF AlreadyTracked(pages, name)
         THEN SweepBorrows(entries, i + 1, pages, RunOps(b, ContainsKeyOps))
         ELSE RunOps(b, ContainsKeyOps)

\* The registry accesses of the run that SweepSegment describes.
SegmentBorrows(entries, i, pages, b) ==
    LET r == SweepFrom(entries, i, {}, pages)
        looped == SweepBorrows(entries, i, pages, b)
    IN  IF r.pending THEN looped ELSE RunOps(looped, DrainOps)

\* The timer fired (or the loop was polled first): read_dir, answered by one of
\* `listings`, and the loop (369-380).
SweepStartWith(listings) ==
    /\ phase = "joined" /\ net_pc = "timer"
    /\ \E listing \in listings :
          /\ paths' = listing
          /\ SweepSegment(listing.entries, 1, {}, network_pages, content_stack)
          /\ borrows' = SegmentBorrows(listing.entries, 1, network_pages, borrows)
    /\ tracked_before' = DOMAIN network_pages
    /\ last' = "sweep_start"
    /\ UNCHANGED <<phase, scanVars, watchVars, drive_pages, hist>>

\* A sweep over a directory that holds some of `names`, or that cannot be read.
SweepStart(names) ==
    SweepStartWith({NoListing} \cup {[ok |-> TRUE, entries |-> l] : l \in Listings(names)})

\* NetworkInterface::from_sysfs returned for entry net_i (382-397), and the loop
\* goes on.
NetResolved ==
    /\ phase = "joined" /\ net_pc = "resolving"
    /\ \E ok \in BOOLEAN :
          LET name == UnwrapOr(paths.entries[net_i], Lo)
              page == NewPage(content_stack)
          IN  /\ ok => HasFreePage(content_stack)
              /\ IF ok
                 THEN SweepSegment(paths.entries, net_i + 1,
                                   still_active_interfaces \cup {name},
                                   Put(network_pages, name, page),
                                   content_stack \cup {page})
                 ELSE SweepSegment(paths.entries, net_i + 1, still_active_interfaces,
                                   network_pages, content_stack)
              /\ borrows' =
                    IF ok
                    THEN SegmentBorrows(paths.entries, net_i + 1,
                                        Put(network_pages, name, page),
                                        RunOps(borrows, InsertNetOps))
                    ELSE SegmentBorrows(paths.entries, net_i + 1, network_pages, borrows)
              /\ last' = IF ok THEN "net_added" ELSE "net_resolve_err"
    /\ UNCHANGED <<phase, scanVars, watchVars, drive_pages, hist, paths, tracked_before>>

\* ---------------------------------------------------------- specifications
\* The whole program: the storage side and the polling loop together, over a
\* directory that holds at most "lo" and "eth0", without the signal history.
Next ==
    \/ ScanConnectFail
    \/ GetBlockDevices(ScanDevices)
    \/ ScanDevice
    \/ ScanAddFinish
    \/ StartWatchers
    \/ WatchConnected
    \/ SubscribedAdded
    \/ SubscribedRemoved
    \/ WatchConnectFail
    \/ EmitAdded(AddedBodies, FALSE)
    \/ EmitRemoved(RemovedBodies, FALSE)
    \/ HandleAdded
    \/ AddFinish
    \/ HandleRemoved
    \/ SweepStart({Lo, Eth0})
    \/ NetResolved

Spec == Init /\ [][Next]_vars

\* The program while the storage service lists no block device and emits no signal.
NextNet ==
    \/ ScanConnectFail
    \/ GetBlockDevices({})
    \/ StartWatchers
    \/ WatchConnected
    \/ SubscribedAdded
    \/ SubscribedRemoved
    \/ WatchConnectFail
    \/ SweepStart(DirNames)
    \/ NetResolved

SpecNet == Init /\ [][NextNet]_vars

\* The storage side of the program: the polling loop stays pending on its timer (it
\* reads and writes nothing the scan and the signal loops use but content_stack,
\* where it touches its own pages only).
NextDrive ==
    \/ ScanConnectFail
    \/ GetBlockDevices(ScanDevices)
    \/ ScanDevice
    \/ ScanAddFinish
    \/ StartWatchers
    \/ WatchConnected
    \/ SubscribedAdded
    \/ SubscribedRemoved
    \/ WatchConnectFail
    \/ EmitAdded(AddedBodies, FALSE)
    \/ EmitRemoved(RemovedBodies, FALSE)
    \/ HandleAdded
    \/ AddFinish
    \/ HandleRemoved

SpecDrive == Init /\ [][NextDrive]_vars

\* The storage side with the history of the emitted signals kept in hist.
NextSignals ==
    \/ ScanConnectFail
    \/ GetBlockDevices(ScanDevices)
    \/ ScanDevice
    \/ ScanAddFinish
    \/ StartWatchers
    \/ WatchConnected
    \/ SubscribedAdded
    \/ SubscribedRemoved
    \/ WatchConnectFail
    \/ EmitAdded(AddedBodies, TRUE)
    \/ EmitRemoved(RemovedBodies, TRUE)
    \/ HandleAdded
    \/ AddFinish
    \/ HandleRemoved

SpecSignals == Init /\ [][NextSignals]_vars

\* ================================================================== claims
\* The entries of a listing that are neither "lo" nor undecodable.
ListedKeys(entries) ==
    {n \in {Eth0, Wlan0} : \E i \in DOMAIN entries : entries[i] = {n}}

\* A sweep over a directory listing has run to its end.
SweepDone == net_pc = "timer" /\ paths.ok

\* The scan has not returned yet, or the task waits for GPU::get_gpus.
ScanPhases == {"scan_connect", "scan", "scan_add", "gpus"}

\* The signal loops wait for a signal and nothing is buffered.
Quiescent ==
    /\ phase = "joined" /\ watch_pc = "running"
    /\ add_pc = "next" /\ rem_pc = "next"
    /\ added_q = <<>> /\ removed_q = <<>>

\* C1. Sweep convergence: after a sweep over listing Sn the keys of network_pages
\* are entries of Sn other than "lo" and undecodable names, and they are all of
\* them when those entries were tracked when the sweep began.
C1_SweepConvergence ==
    SweepDone =>
        /\ DOMAIN network_pages \subseteq ListedKeys(paths.entries)
        /\ ListedKeys(paths.entries) \subseteq tracked_before
              => DOMAIN network_pages = ListedKeys(paths.entries)

C1_Witness ==
    /\ SweepDone
    /\ tracked_before = {Eth0, Wlan0}
    /\ ListedKeys(paths.entries) = {Wlan0}
    /\ DOMAIN network_pages = {Wlan0}

\* C2. Retention without recreation: in every step of a sweep, a key of
\* network_pages whose entry is in the sweep's listing keeps its page handle, and
\* that page stays shown.
C2_Retention ==
    [][\A k \in DOMAIN network_pages :
          (net_pc' # "dropped" /\ paths'.ok /\ k \in ListedKeys(paths'.entries))
             => /\ k \in DOMAIN network_pages'
                /\ network_pages'[k] = network_pages[k]
                /\ network_pages[k] \in content_stack'
      ]_vars

C2_Witness ==
    /\ SweepDone
    /\ last = "net_resolve_err"
    /\ tracked_before = {Wlan0}
    /\ ListedKeys(paths.entries) = {Eth0, Wlan0}
    /\ DOMAIN network_pages = {Wlan0}

\* C3. Scan-before-subscribe loses no event: a removal of the Drive interface of D
\* emitted before the removed-signal stream exists, while the scan knows D, leaves
\* D out of drive_pages once the loops are quiescent.
C3_NoLostRemoval ==
    \A d \in DriveKeys :
        (Quiescent /\ hist[d] = "lost_removed") => d \notin DOMAIN drive_pages

\* C4. In-order processing: after an added signal for D and then a removal of its
\* Drive interface were delivered and processed, with no later added signal for D,
\* D is not in drive_pages.
C4_InOrder ==
    \A d \in DriveKeys :
        (Quiescent /\ hist[d] = "added_removed") => d \notin DOMAIN drive_pages

\* C5. Independence of the two long-running loops: after watch_for_drives returned
\* an error the polling loop is still alive.
C5_PollingSurvivesWatchFailure ==
    watch_pc = "failed" => net_pc \in {"timer", "resolving"}

\* C6. Independence of the two signal loops: after one of them ended with an error
\* the other one still runs.
C6_OtherLoopSurvives ==
    /\ add_pc = "failed" => rem_pc = "next"
    /\ rem_pc = "failed" => add_pc \in {"next", "adding"}

\* A block device all of whose queries succeed and that is a plain drive.
ServedPlainDrive(d) ==
    /\ d.proxy_ok /\ d.drive_proxy_ok /\ d.props_ok
    /\ d.partition = {} /\ d.swapspace = {}
    /\ d.crypto = {NoCrypto} /\ d.drive # {}
    /\ d.device \in {{}, {DevSda}}

\* C7. Per-device errors do not abort the startup scan: when look_for_drives has
\* returned, every plain drive of the list has its page.
C7_ScanSkipsOnlyFailingDevice ==
    phase = "gpus" =>
        \A i \in DOMAIN block_devices :
            ServedPlainDrive(block_devices[i])
               => block_devices[i].drive \subseteq DOMAIN drive_pages

\* C8. Removal is keyed by the drive path: processing a removed signal (P, ifaces)
\* removes exactly the entry under P and its page when ifaces names the Drive
\* interface and P is a key, and changes neither registry nor stack otherwise.
C8_RemovalKeyedByDrivePath ==
    [][(rem_pc = "next" /\ rem_pc' = "next"
          /\ removed_q # <<>> /\ removed_q' = Tail(removed_q))
         => LET P == Head(removed_q).path
                ifaces == Head(removed_q).ifaces
            IN  IF DriveInterface \in ifaces /\ P \in DOMAIN drive_pages
                THEN /\ DOMAIN drive_pages' = DOMAIN drive_pages \ {P}
                     /\ \A k \in DOMAIN drive_pages' : drive_pages'[k] = drive_pages[k]
                     /\ content_stack' = content_stack \ {drive_pages[P]}
                ELSE /\ drive_pages' = drive_pages
                     /\ content_stack' = content_stack
      ]_vars

C8_Witness ==
    /\ last = "removed_page"
    /\ DOMAIN drive_pages = {"/d2"}

\* C9. A block device whose crypto backing device is not "/" never gets a drive
\* page, neither from the scan nor from an added signal.
C9_NoPageForCryptoBacked ==
    [][/\ (phase = "scan_add" /\ drive_pages' # drive_pages)
             => scan_call.crypto = NoCrypto
       /\ (add_pc = "adding" /\ drive_pages' # drive_pages)
             => add_call.crypto = NoCrypto
      ]_vars

\* C10. Scan completes before subscription: while look_for_drives runs, and until
\* try_join! starts, watch_for_drives has not been started, no signal is buffered
\* and no signal loop runs.
C10_ScanBeforeSubscribe ==
    phase \in ScanPhases =>
        /\ watch_pc = "idle" /\ add_pc = "idle" /\ rem_pc = "idle"
        /\ added_q = <<>> /\ removed_q = <<>>

C10_Witness ==
    /\ phase = "scan"
    /\ last = "scan_added"
    /\ drive_pages # EmptyMap

\* The added loop is about to take a signal whose Device bytes do not decode and
\* that passes the tests of lines 294-297.
MalformedDeviceAtHead ==
    /\ AddedLoopReady
    /\ LET body == Head(added_q) IN
          /\ body.body_ok /\ body.block /\ ~body.partition /\ ~body.swapspace
          /\ body.drive # {} /\ body.device # {}
          /\ FromUtf8(FilterNul(UnwrapOr(body.device, <<>>))) = {}

\* C11. A malformed device node is skipped in the live path: the step of the added
\* loop that takes a signal whose Device bytes are not valid UTF-8 leaves the loop
\* waiting for the next signal, with both registries as they were.
C11_MalformedDeviceSkipped ==
    [][(MalformedDeviceAtHead /\ added_q' # added_q)
          => /\ add_pc' = "next" /\ watch_pc' = "running"
             /\ drive_pages' = drive_pages /\ content_stack' = content_stack
      ]_vars


\* C12. The entry "lo" and entries whose name is not valid text are never keys of
\* network_pages.
C12_NoLoopbackNoUndecodable ==
    \A k \in DOMAIN network_pages : k # Lo /\ ToStr(k) # {}

C12_Witness ==
    /\ SweepDone
    /\ \E i \in DOMAIN paths.entries : paths.entries[i] = {Lo}
    /\ \E i \in DOMAIN paths.entries : paths.entries[i] = {BadName}
    /\ DOMAIN network_pages = {Eth0, Wlan0}


\* The step is an add_drive_page that returned Ok, of the scan or of the added loop.
DrivePageAdded ==
    \/ phase = "scan_add" /\ last' = "scan_added"
    \/ add_pc = "adding" /\ last' = "added_page"

\* The key argument of the add_drive_page call that is pending.
PendingKey == IF phase = "scan_add" THEN scan_call.key ELSE add_call.key

\* C13. Registry key uniqueness: an insertion under key K, tracked or not, leaves
\* one entry under K, which is a page created by this insertion, and leaves the
\* entries under the other keys as they were; no other step adds a key.
C13_KeyUniqueness ==
    [][IF DrivePageAdded
       THEN /\ DOMAIN drive_pages' = DOMAIN drive_pages \cup {PendingKey}
            /\ Cardinality(DOMAIN drive_pages') =
                  Cardinality(DOMAIN drive_pages \ {PendingKey}) + 1
            /\ drive_pages'[PendingKey] \notin content_stack
            /\ drive_pages'[PendingKey] \in content_stack'
            /\ \A k \in DOMAIN drive_pages \ {PendingKey} : drive_pages'[k] = drive_pages[k]
       ELSE DOMAIN drive_pages' \subseteq DOMAIN drive_pages
      ]_vars

\* The scan has inserted twice under "/d1": two block devices name the same drive.
C13_Witness ==
    /\ phase \in ScanPhases
    /\ last = "scan_added"
    /\ DOMAIN drive_pages = {"/d1"}
    /\ content_stack = {1, 2}
    /\ drive_pages["/d1"] = 2


\* ------------------------------------------------------ scan classification
\* Every combination of the three probe results of a block device (lines 227-241),
\* each with succeeding and with failing drive property reads.
ProbeCombos ==
    {[PlainDevice("/d1") EXCEPT !.partition = p, !.swapspace = s, !.crypto = c,
                                !.props_ok = ok] :
        p \in {{}, {"sda1"}}, s \in {{}, {FALSE}, {TRUE}},
        c \in {{}, {NoCrypto}, {"/dev/dm-0"}}, ok \in BOOLEAN}

\* The startup scan over lists of such devices.
NextScan ==
    \/ ScanConnectFail
    \/ GetBlockDevices(ProbeCombos)
    \/ ScanDevice
    \/ ScanAddFinish
    \/ StartWatchers

SpecScan == Init /\ [][NextScan]_vars

\* The block device the scan is at.
ScannedDevice == block_devices[scan_i]

\* C14. Scan classification: the scan creates a drive page for a block device only
\* if its partition-name probe failed, its swapspace-active probe failed and its
\* crypto backing device is "/"; and a device whose other queries succeed is never
\* the end of the scan, whatever its partition and swapspace probes return.
C14_ScanClassification ==
    [][/\ (phase = "scan_add" /\ last' = "scan_added")
             => /\ ScannedDevice.partition = {}
                /\ ScannedDevice.swapspace = {}
                /\ ScannedDevice.crypto = {NoCrypto}
       /\ (phase = "scan" /\ ScannedDevice.proxy_ok /\ ScannedDevice.crypto # {}
              /\ ScannedDevice.drive # {} /\ ScannedDevice.device \in {{}, {DevSda}})
             => last' # "scan_err"
      ]_vars

\* A device whose swapspace probe returned Ok(false) was passed over and the plain
\* device after it got its page.
C14_Witness ==
    /\ phase = "gpus" /\ last = "scan_added"
    /\ Len(block_devices) = 2
    /\ block_devices[1] = [PlainDevice("/d1") EXCEPT !.swapspace = {FALSE}]
    /\ block_devices[2] = PlainDevice("/d1")
    /\ DOMAIN drive_pages = {"/d1"} /\ content_stack = {1}


\* The pages a registry stores.
Pages(registry) == {registry[k] : k \in DOMAIN registry}

\* C15. The displayed drive pages are exactly the pages stored in drive_pages: every
\* page of content_stack that is not a network page is a value of drive_pages, and
\* every value of drive_pages is shown.
C15_DisplayedAreStored ==
    content_stack \ Pages(network_pages) = Pages(drive_pages)


\* ------------------------------------------------------ added-event fast path
\* Every combination of what an InterfacesAdded body carries (lines 294-308): the
\* Block, Partition and Swapspace interfaces and the Drive, Device and ReadOnly
\* properties.
AddedCombos ==
    {[AddedBody("/d1") EXCEPT !.block = b, !.partition = p, !.swapspace = s,
                              !.drive = dr, !.device = dev, !.read_only = ro] :
        b \in BOOLEAN, p \in BOOLEAN, s \in BOOLEAN, dr \in {{}, {"/d1"}},
        dev \in {{}, {DevSda}}, ro \in {{}, {FALSE}, {TRUE}}}

\* The added loop over such signals, with an empty startup scan.
NextAdded ==
    \/ ScanConnectFail
    \/ GetBlockDevices({})
    \/ StartWatchers
    \/ WatchConnected
    \/ SubscribedAdded
    \/ SubscribedRemoved
    \/ WatchConnectFail
    \/ EmitAdded(AddedCombos, FALSE)
    \/ HandleAdded
    \/ AddFinish

SpecAdded == Init /\ [][NextAdded]_vars

\* The tests of lines 294-297 on a signal body.
FastPath(body) ==
    body.block /\ ~body.partition /\ ~body.swapspace /\ body.drive # {}

\* C16. Added-event fast path: the added loop goes on to add_drive_page only for a
\* signal with the Block interface, without the Partition and the Swapspace
\* interface and with a Drive path among the Block properties; the key is that
\* path, a missing Device gives the empty device string, a missing ReadOnly gives
\* writable = TRUE and a present one its negation.  Any other signal is passed
\* over, and the registry changes only by the insertion under the key of the call.
C16_AddedFastPath ==
    [][/\ (AddedLoopReady /\ Len(added_q') < Len(added_q))
             => LET body == Head(added_q) IN
                IF FastPath(body)
                THEN /\ last' = "added_call"
                     /\ add_call'.key \in body.drive
                     /\ body.device = {} => add_call'.device = <<>>
                     /\ body.read_only = {} => add_call'.writable = TRUE
                     /\ \A ro \in body.read_only : add_call'.writable = ~ro
                     /\ drive_pages' = drive_pages
                ELSE /\ last' = "added_skip"
                     /\ add_pc' = "next"
                     /\ drive_pages' = drive_pages /\ content_stack' = content_stack
       /\ drive_pages' # drive_pages
             => /\ add_pc = "adding"
                /\ DOMAIN drive_pages' = DOMAIN drive_pages \cup {add_call.key}
      ]_vars

\* A signal without Device and ReadOnly is at line 311, after a page was inserted.
C16_Witness ==
    /\ add_pc = "adding" /\ last = "added_call"
    /\ add_call = [key |-> "/d1", device |-> <<>>, writable |-> TRUE, crypto |-> NoCrypto]
    /\ DOMAIN drive_pages = {"/d1"}


\* ------------------------------------------------------- eventual tracking
\* Readable listings that hold "eth0", beside "lo", an undecodable name and an
\* entry that read_dir yields as Err.
ListingsWithEth0 ==
    {[ok |-> TRUE, entries |-> l] :
        l \in {m \in Listings({Lo, Eth0, BadName}) : \E i \in DOMAIN m : m[i] = {Eth0}}}

\* from_sysfs returns Ok for the entry it was called for.
NetResolvedOk == NetResolved /\ last' = "net_added"

\* The steps of the task that are not a failure of the bus connection.
NextPolling ==
    \/ ScanConnectFail
    \/ GetBlockDevices({})
    \/ StartWatchers
    \/ WatchConnected
    \/ SubscribedAdded
    \/ SubscribedRemoved
    \/ SweepStartWith(ListingsWithEth0)
    \/ NetResolved

NextLive == NextPolling \/ WatchConnectFail

\* The main context runs the task whenever it can take a step (the 1 s timer
\* fires, a pending await returns), and the resolution of "eth0" does not fail
\* forever.
SpecLive ==
    /\ Init /\ [][NextLive]_vars
    /\ WF_vars(NextPolling)
    /\ SF_vars(NetResolvedOk)

\* The sweep is suspended in from_sysfs for "eth0".
ResolvingEth0 ==
    /\ net_pc = "resolving"
    /\ paths.entries[net_i] = {Eth0}

\* C17. Eventual tracking of a new interface: a sweep in which the resolution of
\* untracked "eth0" fails ends without "eth0" in network_pages; every sweep that
\* begins with "eth0" listed and untracked calls the resolution for it; and while
\* "eth0" stays listed, with a resolution that does not fail forever, "eth0" is
\* eventually a key of network_pages unless the polling loop was dropped.
C17_EventualTracking ==
    /\ [][/\ (ResolvingEth0 /\ last' = "net_resolve_err")
                => Eth0 \notin DOMAIN network_pages'
          /\ (net_pc = "timer" /\ last' = "sweep_start" /\ Eth0 \notin DOMAIN network_pages)
                => ResolvingEth0'
         ]_vars
    /\ (last = "net_resolve_err" /\ Eth0 \notin DOMAIN network_pages)
          ~> (Eth0 \in DOMAIN network_pages \/ net_pc = "dropped")

\* A sweep has ended in which the resolution of "eth0" failed.
C17_Witness ==
    /\ SweepDone /\ last = "net_resolve_err"
    /\ \E i \in DOMAIN paths.entries : paths.entries[i] = {Eth0}
    /\ Eth0 \notin DOMAIN network_pages


\* C18. Failed drive-page creation leaves no trace: when a property read of
\* add_drive_page fails, drive_pages and content_stack stay as they were, the scan
\* goes on with the block device after this one (or returns after the last one),
\* and the added loop goes back to wait for the next signal with its stream intact.
C18_FailedAddLeavesNoTrace ==
    [][/\ (phase = "scan_add" /\ last' = "scan_add_err")
             => /\ drive_pages' = drive_pages /\ content_stack' = content_stack
                /\ scan_i' = scan_i + 1 /\ block_devices' = block_devices
                /\ phase' = IF scan_i < Len(block_devices) THEN "scan" ELSE "gpus"
       /\ (add_pc = "adding" /\ last' = "added_page_err")
             => /\ drive_pages' = drive_pages /\ content_stack' = content_stack
                /\ add_pc' = "next" /\ rem_pc' = rem_pc /\ watch_pc' = "running"
                /\ added_q' = added_q /\ phase' = "joined"
      ]_vars

\* The property reads failed for the first block device and the scan went on to
\* give the second one its page.
C18_Witness ==
    /\ phase = "gpus" /\ last = "scan_added"
    /\ Len(block_devices) = 2
    /\ block_devices[1] = [PlainDevice("/d1") EXCEPT !.props_ok = FALSE]
    /\ block_devices[2] = PlainDevice("/d2")
    /\ DOMAIN drive_pages = {"/d2"} /\ content_stack = {1}


\* ------------------------------------------------------ scoped registry access
\* The three loops side by side: one drive that the scan finds and that the service
\* adds and removes, and a directory that holds some of "eth0" and "wlan0".
NextBorrow ==
    \/ ScanConnectFail
    \/ GetBlockDevices({PlainDevice("/d1")})
    \/ ScanDevice
    \/ ScanAddFinish
    \/ StartWatchers
    \/ WatchConnected
    \/ SubscribedAdded
    \/ SubscribedRemoved
    \/ WatchConnectFail
    \/ EmitAdded({AddedBody("/d1")}, FALSE)
    \/ EmitRemoved({RemovedBody("/d1", {DriveInterface})}, FALSE)
    \/ HandleAdded
    \/ AddFinish
    \/ HandleRemoved
    \/ SweepStart({Eth0, Wlan0})
    \/ NetResolved

SpecBorrow == Init /\ [][NextBorrow]_vars

\* C19. Scoped registry access: whenever the task is suspended, whichever loops are
\* in the middle of a handler, neither registry is borrowed, and no borrow() or
\* borrow_mut() of a run between two suspensions has found its registry borrowed
\* the other way.
C19_ScopedRegistryAccess ==
    /\ borrows.drive_pages = 0
    /\ borrows.network_pages = 0
    /\ ~borrows.conflict

\* The removed loop has taken a page out of drive_pages while the added loop is
\* suspended in line 311 and the sweep in from_sysfs, after an insertion by the sweep.
C19_Witness ==
    /\ last = "removed_page"
    /\ add_pc = "adding"
    /\ net_pc = "resolving"
    /\ network_pages # EmptyMap


\* C20. A sweep whose read_dir fails removes every tracked interface: it runs to
\* its end in one step, leaves network_pages empty and takes each of its pages out
\* of content_stack; and a key enters network_pages only by a resolution that
\* succeeded in a sweep over a directory that could be read.
C20_UnreadableDirectoryEvictsAll ==
    [][/\ (net_pc = "timer" /\ last' = "sweep_start" /\ ~paths'.ok)
             => /\ net_pc' = "timer"
                /\ network_pages' = EmptyMap
                /\ content_stack' = content_stack \ Pages(network_pages)
       /\ ~(DOMAIN network_pages' \subseteq DOMAIN network_pages)
             => /\ net_pc = "resolving" /\ last' = "net_added"
                /\ paths.ok
      ]_vars

\* Both interfaces were tracked when the sweep began and read_dir failed.
C20_Witness ==
    /\ net_pc = "timer" /\ last = "sweep_start"
    /\ ~paths.ok
    /\ tracked_before = {Eth0, Wlan0}
    /\ network_pages = EmptyMap /\ content_stack = {}

====
